---- MODULE Spec2Model ----
(***************************************************************************)
(* A model of the Bloom filter of BloomFilterHW.py: the class BloomFilter  *)
(* (sizing, construction, insert, find, falsePositiveRate, numBitsSet)     *)
(* driven by an arbitrary caller.  BitHash and BitVector are imported      *)
(* modules: BitHash is modelled as an arbitrary but fixed function of      *)
(* (key, seed), BitVector as an array of bits.                             *)
(***************************************************************************)
EXTENDS Integers, FiniteSets, Sequences, TLC

\* ---------------------------------------------------------------- bounds
\* BitHash returns a value in 0..MaxHash (the real one returns 64 bits)
MaxHash == 1
\* the caller constructs with numKeys in 0..MaxNumKeys
MaxNumKeys == 2
\* the caller constructs with numHashes in 0..MaxNumHashes
MaxNumHashes == 2

\* the caller inserts and looks up two distinct keys
Keys == {1, 2}
NoKey == 0
HashVals == 0..MaxHash
NumKeysArgs == 0..MaxNumKeys
NumHashesArgs == 0..MaxNumHashes
\* maxFalsePositive arguments, as <<numerator, denominator>>:
\* 0.0, 0.05, 0.25, 0.5, 1.0 and 2.0
MaxFalsePositiveArgs == {<<0, 1>>, <<1, 20>>, <<1, 4>>, <<1, 2>>, <<1, 1>>, <<2, 1>>}

VARIABLES
    phase,      \* "constructing" | "ready" | "failed"
    bf,         \* the BloomFilter object: its private attributes
    bitHash,    \* the imported BitHash, a fixed function of (key, seed)
    inserted,   \* history: the keys whose insert has completed
    lastOp,     \* history: the last call, its argument and its outcome
    lastTrace   \* history: the seeds the last call passed to BitHash and the
                \* positions of the bit array it read or wrote, in order

vars == <<phase, bf, bitHash, inserted, lastOp, lastTrace>>

\* ------------------------------------------------------- imported modules
\* BitVector(size = n): n bits, all 0
BitVector(n) == [i \in 0..(n - 1) |-> 0]

\* BitHash(key, seed), line 35 and line 52
BitHash(key, seed) == bitHash[key, seed]

\* ------------------------------------------------------------ __bitsNeeded
\* int(nBits) as CPython evaluates lines 10-12 in IEEE-754 doubles, for the
\* arguments on which no exception is raised; IntNBits[p][numKeys][numHashes]
IntNBits(p) ==
    CASE p = <<1, 20>> -> << <<19, 8, 8>>, <<39, 16, 14>>, <<58, 24, 21>> >>
      [] p = <<1, 4>>  -> << <<4, 4, 4>>,  <<7, 6, 7>>,    <<10, 9, 10>> >>
      [] p = <<1, 2>>  -> << <<2, 2, 3>>,  <<3, 4, 5>>,    <<4, 5, 7>> >>
      [] p = <<1, 1>>  -> << <<1, 2, 3>>,  <<1, 2, 3>>,    <<1, 2, 3>> >>
      [] p = <<2, 1>>  -> << <<0, 1, 2>> >>

\* the outcome of __bitsNeeded: an exception or the integer it returns
bitsNeeded_KeysAsNumerator(numKeys, numHashes, maxFalsePositive) ==
    IF numHashes = 0 \/ numKeys = 0 \/ maxFalsePositive[1] = 0
    THEN [exc |-> "ZeroDivisionError", ret |-> 0]
    ELSE IF maxFalsePositive[1] > maxFalsePositive[2] /\ numKeys > 1
    THEN [exc |-> "TypeError", ret |-> 0]
    ELSE [exc |-> "None",
          ret |-> (IntNBits(maxFalsePositive)[numKeys][numHashes] * numKeys)
                      \div numHashes]

bitsNeeded(numKeys, numHashes, maxFalsePositive) ==
    IF numHashes = 0
    THEN [exc |-> "ZeroDivisionError", ret |-> 0]      \* 1.0/numHashes
    ELSE IF numKeys = 0
    THEN [exc |-> "ZeroDivisionError", ret |-> 0]      \* 1.0/numKeys
    ELSE IF maxFalsePositive[1] = 0
    THEN [exc |-> "ZeroDivisionError", ret |-> 0]      \* phi = 1.0, 1.0 - 1.0**x = 0.0
    ELSE IF maxFalsePositive[1] > maxFalsePositive[2] /\ numKeys > 1
    THEN [exc |-> "TypeError", ret |-> 0]              \* phi < 0: phi**(1.0/numKeys) is complex
    ELSE [exc |-> "None", ret |-> IntNBits(maxFalsePositive)[numKeys][numHashes]]

\* ---------------------------------------------------------------- __init__
NoObject ==
    [size |-> 0, bv |-> BitVector(0), numKeys |-> 0, numHashes |-> 0,
     maxFalsePositive |-> <<0, 1>>, numBitsSet |-> 0]

init(numKeys, numHashes, maxFalsePositive) ==
    LET b == bitsNeeded(numKeys, numHashes, maxFalsePositive) IN
    IF b.exc # "None"
    THEN [exc |-> b.exc, self |-> NoObject]
    ELSE [exc |-> "None",
          self |-> [size |-> b.ret,
                    bv |-> BitVector(b.ret),
                    numKeys |-> numKeys,
                    numHashes |-> numHashes,
                    maxFalsePositive |-> maxFalsePositive,
                    numBitsSet |-> 0]]

\* ------------------------------------------------------------------ insert
\* lines 38-40: set the bit at hv and count it, unless it is already set
insertStep_NoSet(self, hv) ==
    IF self.bv[hv] = 0
    THEN [self EXCEPT !.numBitsSet = @ + 1]
    ELSE self

insertStep_AlwaysCount(self, hv) ==
    [self EXCEPT !.bv[hv] = 1, !.numBitsSet = @ + 1]

insertStep_CountKey(self, hv) ==
    IF self.bv[hv] = 0
    THEN [self EXCEPT !.bv[hv] = 1, !.numBitsSet = @ + 1]
    ELSE [self EXCEPT !.numBitsSet = @ + 1]

insertStep_Toggle(self, hv) ==
    IF self.bv[hv] = 0
    THEN [self EXCEPT !.bv[hv] = 1, !.numBitsSet = @ + 1]
    ELSE [self EXCEPT !.bv[hv] = 0, !.numBitsSet = @ - 1]

insertStep_Flip(self, hv) ==
    IF self.bv[hv] = 0
    THEN [self EXCEPT !.bv[hv] = 1, !.numBitsSet = @ + 1]
    ELSE [self EXCEPT !.bv[hv] = 0]

insertStep_Probe(self, hv) ==
    IF self.bv[hv] = 0
    THEN [self EXCEPT !.bv[hv] = 1, !.numBitsSet = @ + 1]
    ELSE IF self.bv[(hv + 1) % self.size] = 0
    THEN [self EXCEPT !.bv[(hv + 1) % self.size] = 1, !.numBitsSet = @ + 1]
    ELSE self

insertStep(self, hv) ==
    IF self.bv[hv] = 0
    THEN [self EXCEPT !.bv[hv] = 1, !.numBitsSet = @ + 1]
    ELSE self

\* lines 34-43: the iterations i, i+1, ... of the loop, entered with seed
RECURSIVE insertLoop(_, _, _, _)
insertLoop(self, key, seed, i) ==
    IF i >= self.numHashes
    THEN [exc |-> "None", self |-> self, seeds |-> << >>, idx |-> << >>]
    ELSE LET h == BitHash(key, seed) IN
         IF self.size = 0
         THEN [exc |-> "ZeroDivisionError", self |-> self,   \* h % self.__size
               seeds |-> <<seed>>, idx |-> << >>]
         ELSE LET hv == h % self.size
                  r == insertLoop(insertStep(self, hv), key, h, i + 1)
              IN  [exc |-> r.exc, self |-> r.self,
                   seeds |-> <<seed>> \o r.seeds, idx |-> <<hv>> \o r.idx]

\* lines 31-43
insert_CountsDown(self, key) ==
    LET r == insertLoop(self, key, 0, 0) IN
    [exc |-> r.exc, self |-> [r.self EXCEPT !.numHashes = 0],
     seeds |-> r.seeds, idx |-> r.idx]

insert_OffByOne(self, key) == insertLoop(self, key, 0, 1)

insert_ExtraHash(self, key) == insertLoop(self, key, 0, -1)

insert(self, key) == insertLoop(self, key, 0, 0)

\* -------------------------------------------------------------------- find
\* lines 56-57: the test that ends find with False
findMiss_Never(self, hv) == FALSE

findMiss(self, hv) == self.bv[hv] = 0

\* what find leaves of the object: it assigns no attribute
findEffect_Sets(self, key) == insert(self, key).self

findEffect(self, key) == self

\* lines 51-63: the iterations i, i+1, ... of the loop, entered with seed
RECURSIVE findLoop(_, _, _, _)
findLoop(self, key, seed, i) ==
    IF i >= self.numHashes
    THEN [exc |-> "None", ret |-> TRUE, seeds |-> << >>, idx |-> << >>]
    ELSE LET h == BitHash(key, seed) IN
         IF self.size = 0
         THEN [exc |-> "ZeroDivisionError", ret |-> FALSE,   \* h % self.__size
               seeds |-> <<seed>>, idx |-> << >>]
         ELSE LET hv == h % self.size IN
              IF findMiss(self, hv)
              THEN [exc |-> "None", ret |-> FALSE,
                    seeds |-> <<seed>>, idx |-> <<hv>>]
              ELSE LET r == findLoop(self, key, h, i + 1) IN
                   [exc |-> r.exc, ret |-> r.ret,
                    seeds |-> <<seed>> \o r.seeds, idx |-> <<hv>> \o r.idx]

\* lines 48-63
find(self, key) ==
    LET r == findLoop(self, key, 0, 0) IN
    [exc |-> r.exc, ret |-> r.ret, self |-> findEffect(self, key),
     seeds |-> r.seeds, idx |-> r.idx]

\* ------------------------------------------------------- falsePositiveRate
RECURSIVE Pow(_, _)
Pow(b, e) == IF e <= 0 THEN 1 ELSE b * Pow(b, e - 1)

\* line 71: (float(numBitsSet)/size)**numHashes as the fraction num/den
falsePositiveRate(self) ==
    IF self.size = 0
    THEN [exc |-> "ZeroDivisionError", num |-> 0, den |-> 1, self |-> self]
    ELSE [exc |-> "None",
          num |-> Pow(self.numBitsSet, self.numHashes),
          den |-> Pow(self.size, self.numHashes),
          self |-> self]

\* -------------------------------------------------------------- numBitsSet
\* line 78
numBitsSet(self) == [exc |-> "None", ret |-> self.numBitsSet, self |-> self]

\* ------------------------------------------------------- the state machine
Call(op, key, exc, flag, num, den) ==
    [op |-> op, key |-> key, exc |-> exc, flag |-> flag, num |-> num, den |-> den]

Trace(seeds, idx) == [seeds |-> seeds, idx |-> idx]

Init ==
    /\ phase = "constructing"
    /\ bf = NoObject
    /\ bitHash \in [Keys \X HashVals -> HashVals]
    /\ inserted = {}
    /\ lastOp = Call("none", NoKey, "None", FALSE, 0, 1)
    /\ lastTrace = Trace(<< >>, << >>)

\* bf = BloomFilter(numKeys, numHashes, maxFalsePositive)
Construct(numKeys, numHashes, maxFalsePositive) ==
    /\ phase = "constructing"
    /\ LET r == init(numKeys, numHashes, maxFalsePositive) IN
       /\ phase' = IF r.exc = "None" THEN "ready" ELSE "failed"
       /\ bf' = r.self
       /\ lastOp' = Call("__init__", NoKey, r.exc, FALSE,
                         maxFalsePositive[1], maxFalsePositive[2])
       /\ lastTrace' = Trace(<< >>, << >>)
    /\ UNCHANGED <<bitHash, inserted>>

\* bf.insert(key); flag: key had been inserted before this call
Insert(key) ==
    /\ phase = "ready"
    /\ LET r == insert(bf, key) IN
       /\ bf' = r.self
       /\ inserted' = IF r.exc = "None" THEN inserted \cup {key} ELSE inserted
       /\ lastOp' = Call("insert", key, r.exc, key \in inserted, 0, 1)
       /\ lastTrace' = Trace(r.seeds, r.idx)
    /\ UNCHANGED <<phase, bitHash>>

\* bf.find(key); flag: the value returned
Find(key) ==
    /\ phase = "ready"
    /\ LET r == find(bf, key) IN
       /\ bf' = r.self
       /\ lastOp' = Call("find", key, r.exc, r.ret, 0, 1)
       /\ lastTrace' = Trace(r.seeds, r.idx)
    /\ UNCHANGED <<phase, bitHash, inserted>>

\* bf.falsePositiveRate(); num/den: the value returned
FalsePositiveRate ==
    /\ phase = "ready"
    /\ LET r == falsePositiveRate(bf) IN
       /\ bf' = r.self
       /\ lastOp' = Call("falsePositiveRate", NoKey, r.exc, FALSE, r.num, r.den)
       /\ lastTrace' = Trace(<< >>, << >>)
    /\ UNCHANGED <<phase, bitHash, inserted>>

\* bf.numBitsSet(); num: the value returned
NumBitsSet ==
    /\ phase = "ready"
    /\ LET r == numBitsSet(bf) IN
       /\ bf' = r.self
       /\ lastOp' = Call("numBitsSet", NoKey, r.exc, FALSE, r.ret, 1)
       /\ lastTrace' = Trace(<< >>, << >>)
    /\ UNCHANGED <<phase, bitHash, inserted>>

Next ==
    \/ \E n \in NumKeysArgs, k \in NumHashesArgs, p \in MaxFalsePositiveArgs :
           Construct(n, k, p)
    \/ \E key \in Keys : Insert(key)
    \/ \E key \in Keys : Find(key)
    \/ FalsePositiveRate
    \/ NumBitsSet

Spec == Init /\ [][Next]_vars

TypeOK ==
    /\ phase \in {"constructing", "ready", "failed"}
    /\ inserted \subseteq Keys
    /\ bf.size \in Nat
    /\ DOMAIN bf.bv = 0..(bf.size - 1)

\* ------------------------------------------------- derived bit positions
\* the raw value h of iteration i (0-based) of the loop of insert, lines 32-35
\* and 43: seed 0 first, then the previous raw value as the seed
RECURSIVE hashAt(_, _)
hashAt(key, i) ==
    IF i = 0 THEN BitHash(key, 0) ELSE BitHash(key, hashAt(key, i - 1))

\* hv of iteration i, line 36
indexAt(self, key, i) == hashAt(key, i) % self.size

\* the positions of the bit array that hold 1
OneBits(self) == {i \in DOMAIN self.bv : self.bv[i] = 1}

AllDerivedBitsSet(self, key) ==
    \A i \in 0..(self.numHashes - 1) : self.bv[indexAt(self, key, i)] = 1

\* the arguments section 4.1 of the specification calls valid
ValidParameters(numKeys, numHashes, maxFalsePositive) ==
    /\ numKeys > 0
    /\ numHashes > 0
    /\ 0 < maxFalsePositive[1]
    /\ maxFalsePositive[1] < maxFalsePositive[2]

Queries == {"find", "falsePositiveRate", "numBitsSet"}

\* ------------------------------------------------------------------ claims

\* C1: no false negatives: once insert(x) has completed, find(x) returns
\* True, in every later state, whatever other keys were inserted since.
NoFalseNegatives ==
    phase = "ready" =>
        /\ \A x \in inserted :
               /\ find(bf, x).exc = "None"
               /\ find(bf, x).ret = TRUE
        /\ (lastOp.op = "find" /\ lastOp.key \in inserted) =>
               (lastOp.exc = "None" /\ lastOp.flag = TRUE)

\* find(x) was called and returned True after both keys had been inserted
FoundAfterOtherInserts ==
    /\ phase = "ready"
    /\ inserted = Keys
    /\ lastOp.op = "find"
    /\ lastOp.flag = TRUE

\* C2: in every state of a constructed filter the cached counter equals the
\* number of positions of the bit array that hold 1.
CountMatchesBits ==
    phase = "ready" => bf.numBitsSet = Cardinality(OneBits(bf))

\* an insert whose two hashes fell on the same position: one bit, counted once
SamePositionCountedOnce ==
    /\ phase = "ready"
    /\ lastOp.op = "insert"
    /\ lastOp.exc = "None"
    /\ bf.numHashes = 2
    /\ bf.size >= 2
    /\ inserted = {lastOp.key}
    /\ bf.numBitsSet = 1

\* C3: in every state of a constructed filter 0 <= numBitsSet <= size.
CountWithinCapacity ==
    phase = "ready" => (0 <= bf.numBitsSet /\ bf.numBitsSet <= bf.size)

\* inserts have filled a filter of at least two bits completely
FilterFull ==
    /\ phase = "ready"
    /\ lastOp.op = "insert"
    /\ bf.size >= 2
    /\ bf.numBitsSet = bf.size

\* C4: the value numBitsSet() returns never decreases from one step to the
\* next.
MonotonicFill ==
    [][phase = "ready" => bf'.numBitsSet >= bf.numBitsSet]_vars

\* a second insert has raised the count further
CountGrewTwice ==
    /\ phase = "ready"
    /\ lastOp.op = "insert"
    /\ inserted = Keys
    /\ bf.numBitsSet >= 2

\* C5: inserting a key whose insert has already completed changes neither
\* the bit array nor numBitsSet (nor any other attribute).
IdempotentInsert ==
    [][(lastOp'.op = "insert" /\ lastOp'.flag = TRUE /\ lastOp'.exc = "None")
          => bf' = bf]_vars

\* a key was inserted again after the other key had been inserted too
ReinsertedAfterOther ==
    /\ phase = "ready"
    /\ lastOp.op = "insert"
    /\ lastOp.flag = TRUE
    /\ lastOp.exc = "None"
    /\ inserted = Keys
    /\ bf.numBitsSet >= 2

\* C6: on a constructed filter find(key) returns True exactly when every
\* position derived for key holds 1, and False exactly when at least one of
\* them holds 0.
FindIffAllBitsSet ==
    phase = "ready" =>
        /\ \A key \in Keys :
               /\ find(bf, key).exc = "None"
               /\ find(bf, key).ret = TRUE <=> AllDerivedBitsSet(bf, key)
               /\ find(bf, key).ret = FALSE <=> ~AllDerivedBitsSet(bf, key)
        /\ lastOp.op = "find" =>
               /\ lastOp.exc = "None"
               /\ lastOp.flag = TRUE <=> AllDerivedBitsSet(bf, lastOp.key)

\* find returned False on a key whose first position holds 1 and whose second
\* position holds 0
FindMissedOnSecondBit ==
    /\ phase = "ready"
    /\ bf.numHashes = 2
    /\ lastOp.op = "find"
    /\ lastOp.flag = FALSE
    /\ bf.bv[indexAt(bf, lastOp.key, 0)] = 1
    /\ bf.bv[indexAt(bf, lastOp.key, 1)] = 0

\* C7: on a filter the constructor returned, insert and find never end in an
\* error.
InsertFindNeverFail ==
    (phase = "ready" /\ lastOp.op \in {"insert", "find"}) => lastOp.exc = "None"

\* C8: construction with numKeys <= 0, numHashes <= 0 or a rate outside (0,1)
\* ends in an error and yields no filter.
ConstructionRejectsInvalid ==
    phase = "ready" => ValidParameters(bf.numKeys, bf.numHashes, bf.maxFalsePositive)

\* C9: no filter whose computed capacity is below 1 is ever ready.
NoReadyFilterBelowOneBit ==
    phase = "ready" => bf.size >= 1

\* C10: find, falsePositiveRate and numBitsSet leave every attribute of the
\* filter (bit array, numBitsSet, size, numHashes) unchanged.
QueriesHaveNoEffect ==
    [][lastOp'.op \in Queries => bf' = bf]_vars

\* the projected rate was computed on a filter with bits set
RateQueriedOnFilledFilter ==
    /\ phase = "ready"
    /\ lastOp.op = "falsePositiveRate"
    /\ lastOp.exc = "None"
    /\ lastOp.num >= 1
    /\ inserted # {}

\* C11: after construction size (the length of the bit array) and numHashes
\* keep their values across every insert, find, falsePositiveRate and
\* numBitsSet call.
CapacityAndHashCountFixed ==
    [][phase = "ready" =>
          /\ bf'.size = bf.size
          /\ bf'.numHashes = bf.numHashes
          /\ DOMAIN bf'.bv = DOMAIN bf.bv]_vars

\* numBitsSet was called on a two-hash filter after both keys were inserted
CountReadAfterAllInserts ==
    /\ phase = "ready"
    /\ lastOp.op = "numBitsSet"
    /\ inserted = Keys
    /\ bf.numHashes = 2
    /\ bf.size >= 2
    /\ lastOp.num = bf.numBitsSet

\* C12: in every state of a constructed filter falsePositiveRate() returns
\* (numBitsSet / size) ** numHashes, a value in [0,1] that is 0 whenever
\* numBitsSet is 0.
ProjectedRateInUnitInterval ==
    phase = "ready" =>
        /\ falsePositiveRate(bf).exc = "None"
        /\ 0 <= falsePositiveRate(bf).num
        /\ falsePositiveRate(bf).num <= falsePositiveRate(bf).den
        /\ falsePositiveRate(bf).den > 0
        /\ bf.numBitsSet = 0 => falsePositiveRate(bf).num = 0
        /\ lastOp.op = "falsePositiveRate" =>
               /\ lastOp.exc = "None"
               /\ lastOp.num * Pow(bf.size, bf.numHashes)
                      = lastOp.den * Pow(bf.numBitsSet, bf.numHashes)

\* m <= k / (1 - (1 - p^(1/k))^(1/n)) over the reals, for n > 0, k > 0 and
\* 0 < p < 1, in integers: with r = (1 - p^(1/k))^(1/n) it reads m - k <= m*r,
\* that is m <= k or p * m^(n*k) <= (m^n - (m-k)^n)^k
AtMostFormula(m, n, k, p) ==
    \/ m <= k
    \/ p[1] * Pow(m, n * k) <= p[2] * Pow(Pow(m, n) - Pow(m - k, n), k)

\* m = floor(k / (1 - (1 - p^(1/k))^(1/n)))
IsFloorOfFormula(m, n, k, p) ==
    AtMostFormula(m, n, k, p) /\ ~AtMostFormula(m + 1, n, k, p)

ChainSeeds(key, n) == [i \in 1..n |-> IF i = 1 THEN 0 ELSE hashAt(key, i - 2)]

\* the first n positions of key: h_0 % size, ..., h_(n-1) % size
ChainIndices(self, key, n) == [i \in 1..n |-> indexAt(self, key, i - 1)]

\* C14: every insert(key) passes the seeds 0, h_0, h_1, ... (the raw values)
\* to BitHash and touches exactly numHashes positions h_i % size, all within
\* 0..size-1; every find(key) goes through the same seeds and positions, up
\* to the position at which it returns.
ChainedDerivation ==
    (phase = "ready" /\ lastOp.op \in {"insert", "find"}) =>
        /\ lastOp.exc = "None"
        /\ Len(lastTrace.idx) = Len(lastTrace.seeds)
        /\ lastTrace.seeds = ChainSeeds(lastOp.key, Len(lastTrace.seeds))
        /\ lastTrace.idx = ChainIndices(bf, lastOp.key, Len(lastTrace.idx))
        /\ \A i \in 1..Len(lastTrace.idx) : lastTrace.idx[i] \in 0..(bf.size - 1)
        /\ lastOp.op = "insert" => Len(lastTrace.idx) = bf.numHashes
        /\ lastOp.op = "find" =>
               /\ Len(lastTrace.idx) \in 1..bf.numHashes
               /\ lastOp.flag = TRUE => Len(lastTrace.idx) = bf.numHashes

\* the positions derived for key; none on a filter without bits, where
\* h % size has no value
DerivedIndices(self, key) ==
    IF self.size = 0
    THEN {}
    ELSE {indexAt(self, key, i) : i \in 0..(self.numHashes - 1)}

\* C15: one insert(key) sets exactly the positions derived for key and leaves
\* every other position as it was, and numBitsSet grows by the number of
\* distinct derived positions that held 0 (at most numHashes); an insert that
\* raises changes nothing.
InsertEffect ==
    [][(phase = "ready" /\ lastOp'.op = "insert") =>
          IF lastOp'.exc # "None"
          THEN bf' = bf
          ELSE /\ bf'.bv = [i \in DOMAIN bf.bv |->
                              IF i \in DerivedIndices(bf, lastOp'.key)
                              THEN 1 ELSE bf.bv[i]]
               /\ bf'.numBitsSet = bf.numBitsSet + Cardinality(
                      {i \in DerivedIndices(bf, lastOp'.key) : bf.bv[i] = 0})
               /\ bf'.numBitsSet - bf.numBitsSet <= bf.numHashes]_vars

\* the first insert of a key with two distinct positions, one of which the
\* other key had already set: the count grew by exactly one
InsertCountedOnlyNewBit ==
    /\ phase = "ready"
    /\ lastOp.op = "insert"
    /\ lastOp.exc = "None"
    /\ lastOp.flag = FALSE
    /\ inserted = Keys
    /\ bf.numHashes = 2
    /\ Cardinality(DerivedIndices(bf, lastOp.key)) = 2
    /\ \A o \in Keys \ {lastOp.key} : Cardinality(DerivedIndices(bf, o)) = 1
    /\ bf.numBitsSet = 2

\* C16: every filter constructed with numKeys > 0, numHashes > 0 and
\* 0 < maxFalsePositive < 1 has size >= numHashes.
CapacityAtLeastHashCount ==
    (phase = "ready" /\ ValidParameters(bf.numKeys, bf.numHashes, bf.maxFalsePositive))
        => bf.size >= bf.numHashes

\* the constructor has just returned a filter of two hashes and exactly two
\* bits, from valid arguments
ConstructedWithOneBitPerHash ==
    /\ phase = "ready"
    /\ lastOp.op = "__init__"
    /\ ValidParameters(bf.numKeys, bf.numHashes, bf.maxFalsePositive)
    /\ bf.numHashes = 2
    /\ bf.size = 2

\* C17: in every state of a constructed filter the positions holding 1 are
\* exactly the positions derived for the keys inserted so far.
OneBitsAreInsertedKeysBits ==
    phase = "ready" =>
        OneBits(bf) = UNION {DerivedIndices(bf, x) : x \in inserted}

\* one key inserted on a two-hash filter: its position holds 1, and the other
\* key has a position that holds 0
OnlyInsertedKeyBitsSet ==
    /\ phase = "ready"
    /\ lastOp.op = "insert"
    /\ Cardinality(inserted) = 1
    /\ bf.numHashes = 2
    /\ bf.size >= 3
    /\ Cardinality(OneBits(bf)) = 1
    /\ \E o \in Keys \ inserted : ~(DerivedIndices(bf, o) \subseteq OneBits(bf))

\* C18: from every state of a constructed filter, insert(x) then insert(y)
\* leaves the same object (bit array, numBitsSet) as insert(y) then insert(x).
InsertsCommute ==
    phase = "ready" =>
        \A x, y \in Keys :
            insert(insert(bf, x).self, y).self = insert(insert(bf, y).self, x).self

\* both keys have been inserted on a two-hash filter, and their position sets
\* differ and overlap
OverlappingKeysInserted ==
    /\ phase = "ready"
    /\ lastOp.op = "insert"
    /\ lastOp.exc = "None"
    /\ inserted = Keys
    /\ bf.numHashes = 2
    /\ \E x, y \in Keys :
           /\ DerivedIndices(bf, x) # DerivedIndices(bf, y)
           /\ DerivedIndices(bf, x) \cap DerivedIndices(bf, y) # {}

\* C19: while no insert has completed on a constructed filter every bit is 0,
\* numBitsSet is 0 and, given numHashes >= 1, find returns False for every
\* key.
FreshFilterFindsNothing ==
    (phase = "ready" /\ inserted = {}) =>
        /\ OneBits(bf) = {}
        /\ bf.numBitsSet = 0
        /\ bf.numHashes >= 1 =>
               \A key \in Keys :
                   /\ find(bf, key).exc = "None"
                   /\ find(bf, key).ret = FALSE
        /\ (bf.numHashes >= 1 /\ lastOp.op = "find") =>
               (lastOp.exc = "None" /\ lastOp.flag = FALSE)

====
